---- MODULE Spec2Model ----
(***************************************************************************)
(* rpi_courses/parser/models.py: the read-only entities Period, Section,   *)
(* Course and CrossListing, their from_soup_tag factories, their equality  *)
(* and hash, and ReadOnly.__getattr__.                                     *)
(*                                                                         *)
(* Text is a sequence of one-character strings, so that int(), strip()     *)
(* and repr() are computed on the characters.  A Python value is a record  *)
(* [t, n, s]: t is the type ("int", "str" or "None"), n the integer and s  *)
(* the text.  A call that raises yields [exc |-> <exception>] and a        *)
(* placeholder object.                                                     *)
(***************************************************************************)
EXTENDS Integers, Sequences, FiniteSets

VARIABLES tag, out, first, second, dict, read

vars == <<tag, out, first, second, dict, read>>

----------------------------------------------------------------------------
(* Bounds of the model.                                                    *)

\* longest generated attribute text (start, end)
MaxLen == 2
\* most children of a period tag
MaxDays == 2
\* most children of a section tag
MaxChildren == 2
\* most children of a course tag
MaxSections == 2
\* longest run of underscores before or after an attribute name
MaxUnderscores == 2
\* depth at which the interpreter stops a recursion of __getattr__
RecursionLimit == 4

----------------------------------------------------------------------------
(* Text and Python values.                                                 *)

Max(S) == CHOOSE x \in S : \A y \in S : y <= x
Min(S) == CHOOSE x \in S : \A y \in S : x <= y

\* all texts over the characters C of length at most n
Texts(C, n) == UNION {[1..k -> C] : k \in 0..n}

\* all sequences over S of length at most n
SeqsUpTo(S, n) == UNION {[1..k -> S] : k \in 0..n}

IntV(n) == [t |-> "int", n |-> n, s |-> <<>>]
StrV(s) == [t |-> "str", n |-> 0, s |-> s]
NoneV == [t |-> "None", n |-> 0, s |-> <<>>]

DigitChars == <<"0", "1", "2", "3", "4", "5", "6", "7", "8", "9">>

IsDigit(c) == \E i \in 1..10 : DigitChars[i] = c

DigitVal(c) == (CHOOSE i \in 1..10 : DigitChars[i] = c) - 1

IsSpace(c) == c \in {" ", "\t", "\n"}

\* str.strip(): the text without its leading and trailing whitespace
Strip(s) ==
  LET keep == {i \in 1..Len(s) : ~IsSpace(s[i])}
  IN  IF keep = {} THEN <<>> ELSE SubSeq(s, Min(keep), Max(keep))

RECURSIVE DecVal(_)
\* the number a text of decimal digits denotes
DecVal(ds) ==
  IF ds = <<>> THEN 0
  ELSE 10 * DecVal(SubSeq(ds, 1, Len(ds) - 1)) + DigitVal(ds[Len(ds)])

\* int() of the text t, already stripped
ParseInt(t) ==
  LET signed == t # <<>> /\ t[1] \in {"+", "-"}
      body == IF signed THEN Tail(t) ELSE t
  IN  IF body = <<>> \/ \E i \in 1..Len(body) : ~IsDigit(body[i])
      THEN [exc |-> "ValueError", n |-> 0]
      ELSE [exc |-> "none",
            n |-> IF t[1] = "-" THEN 0 - DecVal(body) ELSE DecVal(body)]

\* int(v): an int is itself; a text has its surrounding whitespace dropped,
\* may carry one sign and needs at least one digit, or ValueError is raised;
\* None raises TypeError
int(v) ==
  CASE v.t = "int" -> [exc |-> "none", n |-> v.n]
    [] v.t = "None" -> [exc |-> "TypeError", n |-> 0]
    [] OTHER -> ParseInt(Strip(v.s))

\* the try/except of a permissive coercion: r is what int(v) gave
IntOrSelf(v, r) == IF r.exc = "none" THEN IntV(r.n) ELSE v

\* utils.safeInt: the integer when the value parses, the value itself otherwise
safeInt(v) == IntOrSelf(v, int(v))

RECURSIVE NatText(_)
\* the decimal digits of a natural number
NatText(n) ==
  IF n < 10 THEN <<DigitChars[n + 1]>>
  ELSE NatText(n \div 10) \o <<DigitChars[(n % 10) + 1]>>

\* str(n) and repr(n) of an int
IntText(n) == IF n < 0 THEN <<"-">> \o NatText(0 - n) ELSE NatText(n)

\* repr(v): u'...' for a text of the tag tree, the digits for an int
Repr(v) ==
  CASE v.t = "int" -> IntText(v.n)
    [] v.t = "str" -> <<"u", "'">> \o v.s \o <<"'">>
    [] OTHER -> <<"N", "o", "n", "e">>

----------------------------------------------------------------------------
(* Tags: name, attributes (texts), children in document order, and the     *)
(* text content of a leaf.                                                 *)

NoAttrs == [none |-> <<>>]

Leaf(name, text) ==
  [name |-> name, attrs |-> NoAttrs, children |-> <<>>, string |-> text]

Day(text) == Leaf("day", text)
Note(text) == Leaf("note", text)

\* a node of a kind no factory knows, around the given children
Other(children) ==
  [name |-> "other", attrs |-> NoAttrs, children |-> children, string |-> <<>>]

PeriodTag(type, instructor, start, end, location, children) ==
  [name |-> "period",
   attrs |-> [type |-> type, instructor |-> instructor, start |-> start,
              end |-> end, location |-> location],
   children |-> children, string |-> <<>>]

SectionTag(crn, num, students, seats, children) ==
  [name |-> "section",
   attrs |-> [crn |-> crn, num |-> num, students |-> students, seats |-> seats],
   children |-> children, string |-> <<>>]

CourseTag(name, dept, num, credmin, credmax, gradetype, children) ==
  [name |-> "course",
   attrs |-> [name |-> name, dept |-> dept, num |-> num, credmin |-> credmin,
              credmax |-> credmax, gradetype |-> gradetype],
   children |-> children, string |-> <<>>]

RECURSIVE FindAllIn(_, _)
\* the descendants of that name below the nodes ch, in document order
FindAllIn(ch, name) ==
  IF ch = <<>> THEN <<>>
  ELSE (IF Head(ch).name = name THEN <<Head(ch)>> ELSE <<>>)
         \o FindAllIn(Head(ch).children, name) \o FindAllIn(Tail(ch), name)

\* tag.findAll(name): every descendant of that name, in document order
FindAll(t, name) == FindAllIn(t.children, name)

----------------------------------------------------------------------------
(* Results of a call.                                                      *)

NoObject == [id |-> 0]

Raise(e) == [exc |-> e, obj |-> NoObject]
Return(o) == [exc |-> "none", obj |-> o]

----------------------------------------------------------------------------
(* Period.                                                                 *)

MAPPER ==
  [d \in 0..4 |->
     CASE d = 0 -> <<"M", "o", "n", "d", "a", "y">>
       [] d = 1 -> <<"T", "u", "e", "s", "d", "a", "y">>
       [] d = 2 -> <<"W", "e", "d", "n", "e", "s", "d", "a", "y">>
       [] d = 3 -> <<"T", "h", "u", "r", "s", "d", "a", "y">>
       [] d = 4 -> <<"F", "r", "i", "d", "a", "y">>]

\* dict.get: the value of the key, None for a key the dict lacks
MapperGet(d) == IF d \in DOMAIN MAPPER THEN StrV(MAPPER[d]) ELSE NoneV

\* both parsed: both ints; otherwise both None
BothOrNone(s, e) ==
  IF s.exc = "none" /\ e.exc = "none"
  THEN [start |-> IntV(s.n), end |-> IntV(e.n)]
  ELSE [start |-> NoneV, end |-> NoneV]

\* each on its own: the int, or None
EachOrNone(s, e) ==
  [start |-> IF s.exc = "none" THEN IntV(s.n) ELSE NoneV,
   end |-> IF e.exc = "none" THEN IntV(e.n) ELSE NoneV]

\* a try/except that handles start and end each on its own
PeriodTimesEach(start, end) == EachOrNone(int(start), int(end))

\* the try/except of Period.__init__: int(start) and int(end) are assigned
\* together, and a ValueError of either leaves both None
PeriodTimes(start, end) == BothOrNone(int(start), int(end))

\* the rest of Period.__init__, with the times and tuple(map(int, days)) as
\* they came out; a day that is no integer raises
PeriodObject(id, type, instructor, location, times, ds) ==
  IF \E i \in 1..Len(ds) : ds[i].exc # "none"
  THEN Raise("ValueError")
  ELSE Return([id |-> id,
               type |-> Strip(type.s),
               instructor |-> Strip(instructor.s),
               location |-> Strip(location.s),
               start |-> times.start,
               end |-> times.end,
               int_days |-> [i \in 1..Len(ds) |-> ds[i].n]])

\* Period.__init__; id is the identity of the new object
PeriodInit(id, type, instructor, start, end, location, days) ==
  PeriodObject(id, type, instructor, location, PeriodTimes(start, end),
               [i \in 1..Len(days) |-> int(days[i])])

\* Period.from_soup_tag
PeriodFromSoupTag(t, id) ==
  IF \E i \in 1..Len(t.children) : t.children[i].name # "day"
  THEN Raise("TypeError")
  ELSE PeriodInit(id, StrV(t.attrs.type), StrV(t.attrs.instructor),
                  StrV(t.attrs.start), StrV(t.attrs.end), StrV(t.attrs.location),
                  [i \in 1..Len(t.children) |-> StrV(t.children[i].string)])

\* Period.tba
PeriodTba(p) == p.start = NoneV \/ p.end = NoneV

\* Period.days
PeriodDays(p) == [i \in 1..Len(p.int_days) |-> MapperGet(p.int_days[i])]

\* p == q for two Periods: Period defines no __eq__, so object's comparison
\* by identity decides
PeriodEq(p, q) == p.id = q.id

----------------------------------------------------------------------------
(* Section.                                                                *)

\* a coercion that drops a text that is no integer
IntOrNone(v, r) == IF r.exc = "none" THEN IntV(r.n) ELSE NoneV

\* an except branch that stores None
SectionNumOrNone(num) == IntOrNone(num, int(num))

\* the try/except around int(num) in Section.__init__
SectionNum(num) == IntOrSelf(num, int(num))

\* the first exception of two conversions, left to right
FirstExc(a, b) == IF a.exc # "none" THEN a.exc ELSE b.exc

\* the rest of Section.__init__, with int(taken) and int(total) as they came
\* out; notes become a set
SectionObject(crn, num, taken, total, periods, notes) ==
  IF FirstExc(taken, total) # "none" THEN Raise(FirstExc(taken, total))
  ELSE Return([crn |-> crn,
               seats_taken |-> taken.n,
               seats_total |-> total.n,
               num |-> num,
               periods |-> periods,
               notes |-> {notes[i] : i \in 1..Len(notes)}])

\* Section.__init__
SectionInit(crn, num, taken, total, periods, notes) ==
  SectionObject(safeInt(crn), SectionNum(num), int(taken), int(total), periods, notes)

\* periods.append(Period.from_soup_tag(elem)), p being what the factory gave
AppendPeriod(acc, p) ==
  IF p.exc # "none" THEN [acc EXCEPT !.exc = p.exc]
  ELSE [acc EXCEPT !.periods = Append(acc.periods, p.obj), !.id = acc.id + 1]

\* one pass of the loop of Section.from_soup_tag; once an exception is raised
\* no later child is looked at
SectionChild(acc, elem) ==
  IF acc.exc # "none" THEN acc
  ELSE IF elem.name \notin {"period", "note"} THEN [acc EXCEPT !.exc = "TypeError"]
  ELSE IF elem.name = "note"
  THEN [acc EXCEPT !.notes = Append(acc.notes, Strip(elem.string))]
  ELSE AppendPeriod(acc, PeriodFromSoupTag(elem, acc.id))

RECURSIVE SectionChildrenFrom(_, _)
SectionChildrenFrom(ch, acc) ==
  IF ch = <<>> THEN acc ELSE SectionChildrenFrom(Tail(ch), SectionChild(acc, Head(ch)))

\* the loop of Section.from_soup_tag over the children; id is the identity
\* the next new Period gets
SectionChildren(ch, id) ==
  SectionChildrenFrom(ch, [exc |-> "none", periods |-> <<>>, notes |-> <<>>, id |-> id])

\* the return of Section.from_soup_tag, c being what the loop left
SectionOf(t, c) ==
  IF c.exc # "none" THEN Raise(c.exc)
  ELSE SectionInit(StrV(t.attrs.crn), StrV(t.attrs.num), StrV(t.attrs.students),
                   StrV(t.attrs.seats), c.periods, c.notes)

\* Section.from_soup_tag; the Periods it makes get the identities id, id+1, ...
SectionFromSoupTag(t, id) == SectionOf(t, SectionChildren(t.children, id))

\* Section.is_valid
SectionIsValid(s) == s.num.t = "int"

\* Section.is_filled
SectionIsFilled(s) == s.seats_taken >= s.seats_total

\* the seats left, taken as none when the section is overenrolled
SectionSeatsLeftClamped(s) ==
  IF s.seats_total >= s.seats_taken THEN s.seats_total - s.seats_taken ELSE 0

\* Section.seats_left
SectionSeatsLeft(s) == s.seats_total - s.seats_taken

\* ps == qs for two tuples of Periods
PeriodsEq(ps, qs) ==
  Len(ps) = Len(qs) /\ \A i \in 1..Len(ps) : PeriodEq(ps[i], qs[i])

\* Section.__eq__
SectionEq(a, b) == a.crn = b.crn /\ a.num = b.num /\ PeriodsEq(a.periods, b.periods)

----------------------------------------------------------------------------
(* Course.                                                                 *)

\* the rest of Course.__init__, with safeInt(num), int(credmin) and
\* int(credmax) as they came out
CourseObject(name, dept, num, credmin, credmax, grade_type, sections) ==
  IF FirstExc(credmin, credmax) # "none" THEN Raise(FirstExc(credmin, credmax))
  ELSE Return([name |-> Strip(name.s),
               dept |-> Strip(dept.s),
               num |-> num,
               cred |-> <<credmin.n, credmax.n>>,
               grade_type |-> Strip(grade_type.s),
               sections |-> sections])

\* Course.__init__
CourseInit(name, dept, num, credmin, credmax, grade_type, sections) ==
  CourseObject(name, dept, safeInt(num), int(credmin), int(credmax), grade_type,
               sections)

\* sections.append(Section.from_soup_tag(s)), s being what the factory gave
AppendSection(acc, s) ==
  IF s.exc # "none" THEN [acc EXCEPT !.exc = s.exc]
  ELSE [acc EXCEPT !.sections = Append(acc.sections, s.obj),
                   !.id = acc.id + Len(s.obj.periods)]

\* one pass of the list comprehension of Course.from_soup_tag
CourseSection(acc, elem) ==
  IF acc.exc # "none" THEN acc ELSE AppendSection(acc, SectionFromSoupTag(elem, acc.id))

RECURSIVE CourseSectionsFrom(_, _)
CourseSectionsFrom(tags, acc) ==
  IF tags = <<>> THEN acc
  ELSE CourseSectionsFrom(Tail(tags), CourseSection(acc, Head(tags)))

\* the list comprehension of Course.from_soup_tag over the section tags; id
\* is the identity the next new Period gets
CourseSections(tags, id) ==
  CourseSectionsFrom(tags, [exc |-> "none", sections |-> <<>>, id |-> id])

\* the return of Course.from_soup_tag, c being the sections and num what
\* int(tag['num']) gave
CourseOf(t, c, num) ==
  IF c.exc # "none" THEN Raise(c.exc)
  ELSE IF num.exc # "none" THEN Raise(num.exc)
  ELSE CourseInit(StrV(t.attrs.name), StrV(t.attrs.dept), IntV(num.n),
                  StrV(t.attrs.credmin), StrV(t.attrs.credmax),
                  StrV(t.attrs.gradetype), c.sections)

\* Course.from_soup_tag
CourseFromSoupTag(t, id) ==
  CourseOf(t, CourseSections(FindAll(t, "section"), id), int(StrV(t.attrs.num)))

\* a comparison of the sections that disregards their order
SectionsEqAnyOrder(ss, ts) ==
  /\ Len(ss) = Len(ts)
  /\ \A i \in 1..Len(ss) : \E j \in 1..Len(ts) : SectionEq(ss[i], ts[j])
  /\ \A j \in 1..Len(ts) : \E i \in 1..Len(ss) : SectionEq(ss[i], ts[j])

\* ss == ts for two tuples of Sections
SectionsEq(ss, ts) ==
  Len(ss) = Len(ts) /\ \A i \in 1..Len(ss) : SectionEq(ss[i], ts[i])

\* Course.__eq__
CourseEq(a, b) ==
  /\ a.name = b.name
  /\ a.dept = b.dept
  /\ a.num = b.num
  /\ a.cred = b.cred
  /\ a.grade_type = b.grade_type
  /\ SectionsEq(a.sections, b.sections)

RECURSIVE SeatsText(_)
SeatsText(ss) ==
  IF ss = <<>> THEN <<>>
  ELSE IntText(Head(ss).seats_taken) \o <<"/">> \o IntText(Head(ss).seats_total)
         \o <<" ">> \o SeatsText(Tail(ss))

\* a representation that lists the seats of the sections instead of counting
\* the sections
CourseReprWithSeats(c) ==
  <<"<Course: ">> \o Repr(StrV(c.name)) \o <<", ">> \o Repr(StrV(c.dept))
    \o <<", ">> \o Repr(c.num) \o <<", ">> \o IntText(c.cred[1])
    \o <<", ">> \o IntText(c.cred[2]) \o <<", ">> \o Repr(StrV(c.grade_type))
    \o <<", sections=">> \o SeatsText(c.sections) \o <<">">>

\* Course.__repr__; the fixed pieces of the format are kept whole
CourseRepr(c) ==
  <<"<Course: ">> \o Repr(StrV(c.name)) \o <<", ">> \o Repr(StrV(c.dept))
    \o <<", ">> \o Repr(c.num) \o <<", ">> \o IntText(c.cred[1])
    \o <<", ">> \o IntText(c.cred[2]) \o <<", ">> \o Repr(StrV(c.grade_type))
    \o <<", section_count=">> \o IntText(Len(c.sections)) \o <<">">>

\* Course.__hash__: the hash of a text is a function of the text alone
CourseHash(c) == [hash_of |-> CourseRepr(c)]

\* Course.credits
CourseCredits(c) == IF c.cred[1] = c.cred[2] THEN IntV(c.cred[1]) ELSE c.cred

\* Course.code
CourseCode(c) == c.dept \o <<" ">> \o (IF c.num.t = "int" THEN IntText(c.num.n) ELSE c.num.s)

----------------------------------------------------------------------------
(* Inputs.                                                                 *)

TBA == <<"*", "*", " ", "T", "B", "A", " ", "*", "*">>

TimeTexts ==
  Texts({"9", "T"}, MaxLen)
    \cup {TBA, <<"-", "9">>, <<"9", "0", "0">>, <<" ", "9", " ">>, <<"9", " ", "9">>}

DayTexts == {<<"0">>, <<"4">>, <<"5">>, <<"x">>}

PeriodChildren == {Day(d) : d \in DayTexts} \cup {Other(<<>>)}

PeriodTags ==
  {PeriodTag(<<"L", "E", "C", " ">>, <<" ", "S">>, st, en, <<"R">>, ch) :
     st \in TimeTexts, en \in TimeTexts, ch \in SeqsUpTo(PeriodChildren, MaxDays)}

\* a period that parses, one with a child of an unknown kind, one with a day
\* that is no number
SamplePeriods ==
  {PeriodTag(<<"L">>, <<"S">>, <<"9">>, <<"1", "0">>, <<"R">>, <<Day(<<"0">>)>>),
   PeriodTag(<<"L">>, <<"S">>, <<"9">>, <<"1", "0">>, <<"R">>, <<Other(<<>>)>>),
   PeriodTag(<<"L">>, <<"S">>, <<"9">>, <<"1", "0">>, <<"R">>, <<Day(<<"x">>)>>)}

SectionChildTags == SamplePeriods \cup {Note(<<"n", " ">>), Other(<<>>)}

CrnTexts == {<<"7">>, <<" ", "8">>, <<"X">>}
NumTexts == {<<"1">>, <<"0", "2">>, <<"I", "N", "F", "O">>}
SeatTexts == {<<"0">>, <<"3">>, <<"3", "5">>, <<"T">>}

SectionTags ==
  {SectionTag(crn, num, st, se, ch) :
     crn \in CrnTexts, num \in NumTexts, st \in SeatTexts, se \in SeatTexts,
     ch \in SeqsUpTo(SectionChildTags, MaxChildren)}

\* sections: without children, with a period and a note, with a child of an
\* unknown kind, with seats that are no number
SampleSections ==
  {SectionTag(<<"7">>, <<"1">>, <<"3">>, <<"3">>, <<>>),
   SectionTag(<<"8">>, <<"2">>, <<"0">>, <<"3">>,
              <<PeriodTag(<<"L">>, <<"S">>, <<"9">>, <<"1", "0">>, <<"R">>,
                          <<Day(<<"0">>)>>),
                Note(<<"n">>)>>),
   SectionTag(<<"7">>, <<"1">>, <<"3">>, <<"3">>, <<Other(<<>>)>>),
   SectionTag(<<"7">>, <<"1">>, <<"T">>, <<"3">>, <<>>)}

\* the children of a course tag: sections, and nodes of an unknown kind, empty
\* or around a section
CourseChildTags ==
  SampleSections
    \cup {Other(<<>>), Other(<<SectionTag(<<"9">>, <<"3">>, <<"1">>, <<"2">>, <<>>)>>)}

CourseNumTexts == {<<"1", "0", "1">>, <<"X">>}
CredTexts == {<<"3">>, <<" ", "4">>, <<"T">>}

CourseTags ==
  {CourseTag(<<"I", "n", "t", "r", "o", " ">>, <<"C", "S">>, num, cmin, cmax,
             <<"L", "e", "t", "t", "e", "r">>, ch) :
     num \in CourseNumTexts, cmin \in CredTexts, cmax \in CredTexts,
     ch \in SeqsUpTo(CourseChildTags, MaxSections)}

----------------------------------------------------------------------------
(* One factory call: tag is the node given, out what came back.  The       *)
(* factories keep no state between calls, so every call starts from Init.  *)

NoTag == [name |-> "none"]

NoCall == [tag |-> NoTag, out |-> Raise("none")]

NoRead == [state |-> "idle", name |-> <<>>, key |-> <<>>, hops |-> 0, value |-> NoneV]

Init ==
  /\ tag = NoTag
  /\ out = Raise("none")
  /\ first = NoCall
  /\ second = NoCall
  /\ dict = <<>>
  /\ read = NoRead

CallPeriodFromSoupTag ==
  /\ tag = NoTag
  /\ \E t \in PeriodTags :
       /\ tag' = t
       /\ out' = PeriodFromSoupTag(t, 1)
  /\ UNCHANGED <<first, second, dict, read>>

CallSectionFromSoupTag ==
  /\ tag = NoTag
  /\ \E t \in SectionTags :
       /\ tag' = t
       /\ out' = SectionFromSoupTag(t, 1)
  /\ UNCHANGED <<first, second, dict, read>>

CallCourseFromSoupTag ==
  /\ tag = NoTag
  /\ \E t \in CourseTags :
       /\ tag' = t
       /\ out' = CourseFromSoupTag(t, 1)
  /\ UNCHANGED <<first, second, dict, read>>

Next ==
  \/ CallPeriodFromSoupTag
  \/ CallSectionFromSoupTag
  \/ CallCourseFromSoupTag

Spec == Init /\ [][Next]_vars

----------------------------------------------------------------------------
(* Two entities side by side: first and second each hold the node or the   *)
(* constructor arguments given and what came back.  The Periods of the     *)
(* second are new objects, so their identities differ from those the first *)
(* still holds.                                                            *)

PairPeriod ==
  PeriodTag(<<"L">>, <<"S">>, <<"9">>, <<"1", "0">>, <<"R">>, <<Day(<<"0">>)>>)

PairSectionTags ==
  {SectionTag(crn, num, st, <<"3">>, ch) :
     crn \in {<<"7">>, <<"8">>}, num \in {<<"1">>, <<"X">>},
     st \in {<<"0">>, <<"3">>},
     ch \in SeqsUpTo({PairPeriod, Note(<<"n">>)}, MaxChildren)}

\* two sections alike but for their seats, and one with another crn and a
\* period
PairCourseChildTags ==
  {SectionTag(<<"7">>, <<"1">>, <<"0">>, <<"3">>, <<>>),
   SectionTag(<<"7">>, <<"1">>, <<"3">>, <<"3">>, <<>>),
   SectionTag(<<"9">>, <<"1">>, <<"0">>, <<"3">>, <<PairPeriod>>)}

PairCourseTags ==
  {CourseTag(name, <<"C", "S">>, num, <<"3">>, <<"4">>, <<"L">>, ch) :
     name \in {<<"I">>, <<"I", " ">>}, num \in {<<"1">>, <<"2">>},
     ch \in SeqsUpTo(PairCourseChildTags, MaxSections)}

RECURSIVE PeriodsIn(_)
\* the Period objects the sections hold
PeriodsIn(ss) == IF ss = <<>> THEN 0 ELSE Len(Head(ss).periods) + PeriodsIn(Tail(ss))

\* the Period objects a result holds
PeriodCount(call) ==
  CASE call.out.exc # "none" -> 0
    [] call.tag.name = "section" -> Len(call.out.obj.periods)
    [] OTHER -> PeriodsIn(call.out.obj.sections)

\* the orders in which n things can be arranged
Orders(n) == {f \in [1..n -> 1..n] : \A i, j \in 1..n : f[i] = f[j] => i = j}

FirstSectionFromSoupTag ==
  /\ first = NoCall
  /\ \E t \in PairSectionTags :
       first' = [tag |-> t, out |-> SectionFromSoupTag(t, 1)]
  /\ UNCHANGED <<tag, out, second, dict, read>>

SecondSectionFromSoupTag ==
  /\ first.tag.name = "section"
  /\ second = NoCall
  /\ \E t \in PairSectionTags :
       second' = [tag |-> t, out |-> SectionFromSoupTag(t, PeriodCount(first) + 1)]
  /\ UNCHANGED <<tag, out, first, dict, read>>

FirstCourseFromSoupTag ==
  /\ first = NoCall
  /\ \E t \in PairCourseTags :
       first' = [tag |-> t, out |-> CourseFromSoupTag(t, 1)]
  /\ UNCHANGED <<tag, out, second, dict, read>>

SecondCourseFromSoupTag ==
  /\ first.tag.name = "course"
  /\ second = NoCall
  /\ \E t \in PairCourseTags :
       second' = [tag |-> t, out |-> CourseFromSoupTag(t, PeriodCount(first) + 1)]
  /\ UNCHANGED <<tag, out, first, dict, read>>

\* Course(...) called with the fields of the first Course and its Section
\* objects in the order perm
SecondCourseReordered ==
  /\ first.tag.name = "course"
  /\ first.out.exc = "none"
  /\ second = NoCall
  /\ LET c == first.out.obj
     IN  \E perm \in Orders(Len(c.sections)) :
           second' =
             [tag |-> [name |-> "Course", perm |-> perm],
              out |-> CourseInit(StrV(c.name), StrV(c.dept), c.num, IntV(c.cred[1]),
                                 IntV(c.cred[2]), StrV(c.grade_type),
                                 [i \in 1..Len(c.sections) |-> c.sections[perm[i]]])]
  /\ UNCHANGED <<tag, out, first, dict, read>>

NextPair ==
  \/ FirstSectionFromSoupTag
  \/ SecondSectionFromSoupTag
  \/ FirstCourseFromSoupTag
  \/ SecondCourseFromSoupTag
  \/ SecondCourseReordered

SpecPair == Init /\ [][NextPair]_vars

----------------------------------------------------------------------------
(* Attribute access on one entity, a CrossListing: dict is the instance's  *)
(* __dict__ (empty before __init__ has run), read the attribute read in    *)
(* progress: the name asked for, the key now looked up, and the number of  *)
(* times __getattr__ has passed the read on.                               *)

Underscores(k) == [i \in 1..k |-> "_"]

crns == <<"c", "r", "n", "s">>
seats == <<"s", "e", "a", "t", "s">>

Private(name) == <<"_">> \o name

AttrNames ==
  {Underscores(i) \o b \o Underscores(j) :
     b \in {<<>>, crns, seats, <<"e", "q">>, <<"x">>},
     i \in 0..MaxUnderscores, j \in 0..MaxUnderscores}

\* the names written to from outside: public names
PublicNames == {crns, seats, <<"x">>}

\* what the classes CrossListing and ReadOnly define
ClassAttrs ==
  {Underscores(2) \o b \o Underscores(2) :
     b \in {<<"i", "n", "i", "t">>, <<"e", "q">>,
            <<"g", "e", "t", "a", "t", "t", "r">>}}

SetV(S) == [t |-> "set", n |-> 0, s |-> <<>>, items |-> S]
MethodV(name) == [t |-> "method", n |-> 0, s |-> name]

startswith(key, prefix) ==
  Len(key) >= Len(prefix) /\ SubSeq(key, 1, Len(prefix)) = prefix

endswith(key, suffix) ==
  Len(key) >= Len(suffix) /\ SubSeq(key, Len(key) - Len(suffix) + 1, Len(key)) = suffix

\* a test that looks at the end of the key only
EndsReserved(key) == endswith(key, Underscores(2))

\* the test of ReadOnly.__getattr__: the key is passed on unless it starts or
\* ends with two underscores
Reserved(key) == endswith(key, Underscores(2)) \/ startswith(key, Underscores(2))

\* object.__setattr__: with no __setattr__ and no descriptor of that name in
\* the class, the value is stored in the instance's __dict__
SetAttrDict(d, name, v) ==
  [n \in DOMAIN d \cup {name} |-> IF n = name THEN v ELSE d[n]]

\* CrossListing.__init__
CrossListingInit ==
  /\ dict = <<>>
  /\ \E cs \in {<<1>>, <<1, 2>>, <<2, 1, 2>>}, st \in {IntV(10), IntV(20)} :
       dict' = [n \in {Private(crns), Private(seats)} |->
                  IF n = Private(crns) THEN SetV({cs[i] : i \in 1..Len(cs)}) ELSE st]
  /\ UNCHANGED <<tag, out, first, second, read>>

\* entity.<name> = value, from outside
SetAttr ==
  /\ dict # <<>>
  /\ read.state = "idle"
  /\ \E name \in PublicNames : dict' = SetAttrDict(dict, name, IntV(0))
  /\ UNCHANGED <<tag, out, first, second, read>>

\* entity.<name> is asked for
GetAttr ==
  /\ dict # <<>>
  /\ read.state = "idle"
  /\ \E name \in AttrNames :
       read' = [state |-> "lookup", name |-> name, key |-> name, hops |-> 0,
                value |-> NoneV]
  /\ UNCHANGED <<tag, out, first, second, dict>>

\* the normal lookup finds the key in the instance or in its class
Found ==
  /\ read.state = "lookup"
  /\ read.key \in DOMAIN dict \cup ClassAttrs
  /\ read' = [read EXCEPT !.state = "returned",
                          !.value = IF read.key \in DOMAIN dict THEN dict[read.key]
                                    ELSE MethodV(read.key)]
  /\ UNCHANGED <<tag, out, first, second, dict>>

\* ReadOnly.__getattr__, called as the normal lookup found nothing: it asks
\* for '_' + key
GetattrPassOn ==
  /\ read.state = "lookup"
  /\ read.key \notin DOMAIN dict \cup ClassAttrs
  /\ ~Reserved(read.key)
  /\ read.hops < RecursionLimit
  /\ read' = [read EXCEPT !.key = Private(read.key), !.hops = read.hops + 1]
  /\ UNCHANGED <<tag, out, first, second, dict>>

\* ReadOnly.__getattr__ raises AttributeError, which every caller up the
\* chain lets through
GetattrRaise ==
  /\ read.state = "lookup"
  /\ read.key \notin DOMAIN dict \cup ClassAttrs
  /\ Reserved(read.key)
  /\ read' = [read EXCEPT !.state = "AttributeError"]
  /\ UNCHANGED <<tag, out, first, second, dict>>

\* the caller has the value or the exception
ReadDone ==
  /\ read.state \in {"returned", "AttributeError"}
  /\ read' = NoRead
  /\ UNCHANGED <<tag, out, first, second, dict>>

NextAttr ==
  \/ CrossListingInit
  \/ SetAttr
  \/ GetAttr
  \/ Found
  \/ GetattrPassOn
  \/ GetattrRaise
  \/ ReadDone

SpecAttr == Init /\ [][NextAttr]_vars

----------------------------------------------------------------------------
(* What the claims speak of, read off a call's tag.                        *)

\* the child kinds each parent's factory recognizes
Recognized(parent) ==
  CASE parent = "course" -> {"section"}
    [] parent = "section" -> {"period", "note"}
    [] parent = "period" -> {"day"}
    [] OTHER -> {}

HasUnknownChild(t) ==
  \E i \in 1..Len(t.children) : t.children[i].name \notin Recognized(t.name)

\* the tag without its immediate children of an unknown kind
WithoutUnknown(t) ==
  [t EXCEPT !.children = SelectSeq(t.children, LAMBDA c : c.name \in Recognized(t.name))]

Factory(t) ==
  CASE t.name = "course" -> CourseFromSoupTag(t, 1)
    [] t.name = "section" -> SectionFromSoupTag(t, 1)
    [] t.name = "period" -> PeriodFromSoupTag(t, 1)

\* the text is an integer literal: optional sign, digits, whitespace around
Numeric(text) ==
  LET t == Strip(text)
      b == IF t # <<>> /\ t[1] \in {"+", "-"} THEN Tail(t) ELSE t
  IN  b # <<>> /\ \A i \in 1..Len(b) : b[i] \in {DigitChars[k] : k \in 1..10}

\* the integer a numeric text denotes
Value(text) ==
  LET t == Strip(text)
  IN  IF t[1] = "-" THEN 0 - DecVal(Tail(t))
      ELSE IF t[1] = "+" THEN DecVal(Tail(t)) ELSE DecVal(t)

Called(kind) == tag.name = kind
Produced(kind) == tag.name = kind /\ out.exc = "none"

----------------------------------------------------------------------------
(* C1 *)

\* C1: for every parent kind (course, section, period), deserializing a node
\* with an immediate child of a kind the parent does not recognize produces
\* no entity, and fails with TypeError whenever the node is well-formed apart
\* from such children.  (The claim as stated; Course.from_soup_tag breaks it.)
C1_UnknownChildAborts ==
  (tag.name \in {"course", "section", "period"} /\ HasUnknownChild(tag))
    => /\ out.exc # "none"
       /\ Factory(WithoutUnknown(tag)).exc = "none" => out.exc = "TypeError"

\* What the code does keep of C1: Section.from_soup_tag and
\* Period.from_soup_tag never produce an entity from a node with a child of
\* an unknown kind.
C1_SectionAndPeriodAbort ==
  (tag.name \in {"section", "period"} /\ HasUnknownChild(tag))
    => /\ out.exc # "none"
       /\ Factory(WithoutUnknown(tag)).exc = "none" => out.exc = "TypeError"

C1_SectionAndPeriodAbort_Witness ==
  /\ Called("section")
  /\ HasUnknownChild(tag)
  /\ Factory(WithoutUnknown(tag)).exc = "none"
  /\ Len(tag.children) > 1
  /\ out.exc = "TypeError"

----------------------------------------------------------------------------
(* C2 *)

\* the children of the section tag, and the sections and number of the course
\* tag, deserialize
RestDeserializes ==
  \/ Called("section") /\ SectionChildren(tag.children, 1).exc = "none"
  \/ /\ Called("course")
     /\ CourseSections(FindAll(tag, "section"), 1).exc = "none"
     /\ Numeric(tag.attrs.num)

\* the field holds the integer of a numeric text and the text itself otherwise
Coerced(field, text) ==
  IF Numeric(text) THEN field = IntV(Value(text)) ELSE field = StrV(text)

\* C2 as stated: for Section crn, num, seats taken and seats total and for
\* Course credmin and credmax, a text that is no integer never makes
\* construction fail; the field keeps the original text.
C2_NeverFails ==
  RestDeserializes =>
    /\ out.exc = "none"
    /\ Called("section") =>
         /\ Coerced(out.obj.crn, tag.attrs.crn)
         /\ Coerced(out.obj.num, tag.attrs.num)
         /\ Coerced(IntV(out.obj.seats_taken), tag.attrs.students)
         /\ Coerced(IntV(out.obj.seats_total), tag.attrs.seats)
    /\ Called("course") =>
         /\ Coerced(IntV(out.obj.cred[1]), tag.attrs.credmin)
         /\ Coerced(IntV(out.obj.cred[2]), tag.attrs.credmax)

\* C2 amended: a Section crn or num that is no integer never makes
\* construction fail and is kept as the original text; a Section seats taken
\* or seats total, or a Course credmin or credmax, that is no integer makes
\* construction fail with ValueError, and no entity is produced.
C2_CrnNumKept_SeatsCredRaise ==
  RestDeserializes =>
    /\ Called("section") =>
         IF Numeric(tag.attrs.students) /\ Numeric(tag.attrs.seats)
         THEN /\ out.exc = "none"
              /\ Coerced(out.obj.crn, tag.attrs.crn)
              /\ Coerced(out.obj.num, tag.attrs.num)
              /\ out.obj.seats_taken = Value(tag.attrs.students)
              /\ out.obj.seats_total = Value(tag.attrs.seats)
         ELSE out = Raise("ValueError")
    /\ Called("course") =>
         IF Numeric(tag.attrs.credmin) /\ Numeric(tag.attrs.credmax)
         THEN /\ out.exc = "none"
              /\ out.obj.cred = <<Value(tag.attrs.credmin), Value(tag.attrs.credmax)>>
         ELSE out = Raise("ValueError")

C2_Witness ==
  /\ Produced("section")
  /\ ~Numeric(tag.attrs.crn)
  /\ ~Numeric(tag.attrs.num)
  /\ out.obj.crn = StrV(tag.attrs.crn)
  /\ out.obj.num = StrV(tag.attrs.num)

----------------------------------------------------------------------------
(* C7 *)

\* C7: every constructed Period has start and end both integers or both
\* absent; with both source texts numeric they are those integers and tba is
\* false; with a source text that is no number (the sentinel "** TBA **"
\* among them) both are absent and tba is true.
C7_StartEndTogether ==
  Produced("period") =>
    /\ \/ out.obj.start.t = "int" /\ out.obj.end.t = "int"
       \/ out.obj.start = NoneV /\ out.obj.end = NoneV
    /\ (Numeric(tag.attrs.start) /\ Numeric(tag.attrs.end)) =>
         /\ ~PeriodTba(out.obj)
         /\ out.obj.start = IntV(Value(tag.attrs.start))
         /\ out.obj.end = IntV(Value(tag.attrs.end))
    /\ (~Numeric(tag.attrs.start) \/ ~Numeric(tag.attrs.end)) =>
         /\ PeriodTba(out.obj)
         /\ out.obj.start = NoneV
         /\ out.obj.end = NoneV

C7_Witness ==
  /\ Produced("period")
  /\ Numeric(tag.attrs.start)
  /\ tag.attrs.end = TBA
  /\ PeriodTba(out.obj)
  /\ out.obj.start = NoneV

----------------------------------------------------------------------------
(* C8 *)

\* C8: for every Section, seats_taken and seats_total are the source numbers
\* unclamped, seats_left is seats_total - seats_taken (negative when
\* overenrolled), and is_filled holds exactly when seats_taken >= seats_total,
\* that is exactly when seats_left <= 0.
C8_SeatsLeft ==
  Produced("section") =>
    /\ out.obj.seats_taken = Value(tag.attrs.students)
    /\ out.obj.seats_total = Value(tag.attrs.seats)
    /\ SectionSeatsLeft(out.obj) = Value(tag.attrs.seats) - Value(tag.attrs.students)
    /\ SectionIsFilled(out.obj) <=> Value(tag.attrs.students) >= Value(tag.attrs.seats)
    /\ SectionIsFilled(out.obj) <=> SectionSeatsLeft(out.obj) <= 0

C8_Witness ==
  /\ Produced("section")
  /\ out.obj.seats_taken > out.obj.seats_total
  /\ SectionSeatsLeft(out.obj) < 0
  /\ SectionIsFilled(out.obj)

----------------------------------------------------------------------------
(* C9 *)

\* C9 as stated: the days of every Period deserialized from a node are as many
\* as the node's day children, in document order, each the weekday name of
\* its day integer and never an absent value.  (MAPPER.get breaks it for a
\* day integer outside 0..4.)
C9_DaysNeverAbsent ==
  Produced("period") =>
    /\ Len(PeriodDays(out.obj)) = Len(tag.children)
    /\ \A i \in 1..Len(tag.children) :
         /\ PeriodDays(out.obj)[i] # NoneV
         /\ Value(tag.children[i].string) \in 0..4 =>
              PeriodDays(out.obj)[i] = StrV(MAPPER[Value(tag.children[i].string)])

\* What the code does keep of C9: length, order and duplicates, and the
\* weekday name for the day integers 0..4; any other integer gives None.
C9_DaysOrNone ==
  Produced("period") =>
    /\ Len(PeriodDays(out.obj)) = Len(tag.children)
    /\ \A i \in 1..Len(tag.children) :
         IF Value(tag.children[i].string) \in 0..4
         THEN PeriodDays(out.obj)[i] = StrV(MAPPER[Value(tag.children[i].string)])
         ELSE PeriodDays(out.obj)[i] = NoneV

C9_DaysOrNone_Witness ==
  /\ Produced("period")
  /\ Len(tag.children) = 2
  /\ tag.children[1] = tag.children[2]
  /\ PeriodDays(out.obj)[1] = StrV(MAPPER[4])
  /\ PeriodDays(out.obj)[2] = StrV(MAPPER[4])

----------------------------------------------------------------------------
(* C3 *)

BothProduced(kind) ==
  /\ first.tag.name = kind
  /\ first.out.exc = "none"
  /\ second.tag.name \in {kind, "Course"}
  /\ second.out.exc = "none"

\* two Periods with equal field values
PeriodSameFields(p, q) == [p EXCEPT !.id = 0] = [q EXCEPT !.id = 0]

PeriodsSameFields(ps, qs) ==
  Len(ps) = Len(qs) /\ \A i \in 1..Len(ps) : PeriodSameFields(ps[i], qs[i])

\* C3 as stated: two Sections are equal exactly when crn and num match and
\* their periods are as many and element-wise of equal field values, in the
\* same order; two Sections deserialized from identical nodes are equal.
\* (Period has no __eq__, so the code compares Periods by identity.)
C3_SectionEqByFields ==
  BothProduced("section") =>
    /\ SectionEq(first.out.obj, second.out.obj) <=>
         /\ first.out.obj.crn = second.out.obj.crn
         /\ first.out.obj.num = second.out.obj.num
         /\ PeriodsSameFields(first.out.obj.periods, second.out.obj.periods)
    /\ first.tag = second.tag => SectionEq(first.out.obj, second.out.obj)

\* What the code does keep of C3: two Sections deserialized separately are
\* equal exactly when crn and num match and neither has a period; seats and
\* notes never matter.
C3_EqualOnlyWithoutPeriods ==
  BothProduced("section") =>
    (SectionEq(first.out.obj, second.out.obj) <=>
       /\ first.out.obj.crn = second.out.obj.crn
       /\ first.out.obj.num = second.out.obj.num
       /\ first.out.obj.periods = <<>>
       /\ second.out.obj.periods = <<>>)

C3_EqualOnlyWithoutPeriods_Witness ==
  /\ BothProduced("section")
  /\ SectionEq(first.out.obj, second.out.obj)
  /\ first.out.obj.seats_taken # second.out.obj.seats_taken
  /\ first.out.obj.notes # second.out.obj.notes

----------------------------------------------------------------------------
(* C4 *)

\* two Sections with equal field values
SectionSameFields(a, b) ==
  /\ a.crn = b.crn
  /\ a.num = b.num
  /\ a.seats_taken = b.seats_taken
  /\ a.seats_total = b.seats_total
  /\ a.notes = b.notes
  /\ PeriodsSameFields(a.periods, b.periods)

\* two Courses with identical fields, section list included
CourseSameFields(a, b) ==
  /\ a.name = b.name
  /\ a.dept = b.dept
  /\ a.num = b.num
  /\ a.cred = b.cred
  /\ a.grade_type = b.grade_type
  /\ Len(a.sections) = Len(b.sections)
  /\ \A i \in 1..Len(a.sections) : SectionSameFields(a.sections[i], b.sections[i])

----------------------------------------------------------------------------
(* C5 *)

Reordered ==
  /\ BothProduced("course")
  /\ second.tag.name = "Course"
  /\ Len(first.out.obj.sections) >= 2
  /\ \E i \in DOMAIN second.tag.perm : second.tag.perm[i] # i

CourseEqLaws ==
  BothProduced("course") =>
    /\ CourseEq(first.out.obj, first.out.obj)
    /\ CourseEq(second.out.obj, second.out.obj)
    /\ CourseEq(first.out.obj, second.out.obj) <=> CourseEq(second.out.obj, first.out.obj)
    /\ CourseEq(first.out.obj, second.out.obj) =>
         /\ Len(first.out.obj.sections) = Len(second.out.obj.sections)
         /\ \A i \in 1..Len(first.out.obj.sections) :
              SectionEq(first.out.obj.sections[i], second.out.obj.sections[i])

\* C5 as stated: Course equality is reflexive and symmetric and holds only
\* between Courses whose sections are element-wise equal in the same order,
\* and reordering the sections of a Course with at least two sections yields
\* a Course unequal to the original.
C5_ReorderedIsUnequal ==
  /\ CourseEqLaws
  /\ Reordered => ~CourseEq(first.out.obj, second.out.obj)

\* C5 amended: Course equality is reflexive and symmetric and holds only
\* between Courses whose sections are element-wise equal in the same order;
\* reordering the sections of a Course yields an unequal Course exactly when
\* some position then holds a Section unequal to the one it held before
\* (sections with the same crn and num and no periods are equal, and
\* exchanging them yields an equal Course).
C5_ReorderedUnequalIffSectionsDiffer ==
  /\ CourseEqLaws
  /\ Reordered =>
       (~CourseEq(first.out.obj, second.out.obj) <=>
          \E i \in DOMAIN second.tag.perm :
            ~SectionEq(first.out.obj.sections[i],
                       first.out.obj.sections[second.tag.perm[i]]))

C5_Witness ==
  /\ Reordered
  /\ ~SectionEq(first.out.obj.sections[1], first.out.obj.sections[2])
  /\ first.out.obj.sections[1].periods # <<>>
  /\ ~CourseEq(first.out.obj, second.out.obj)

----------------------------------------------------------------------------
(* C6 *)

\* C6 as stated: a write through a public field name is never accepted, and
\* every read of a public field name returns the value the constructor set.
\* (ReadOnly defines no __setattr__, so the write lands in __dict__ and
\* shadows the field.)
C6_PublicWritesRejected ==
  /\ \A n \in {crns, seats} : n \notin DOMAIN dict
  /\ (read.state = "returned" /\ read.name \in {crns, seats}) =>
       read.value = dict[Private(read.name)]

\* What the code does keep of C6: the values stored by the constructor under
\* the private names stay as they are.
C6_PrivateFieldsKept ==
  [][dict # <<>> =>
       /\ dict'[Private(crns)] = dict[Private(crns)]
       /\ dict'[Private(seats)] = dict[Private(seats)]]_vars

----------------------------------------------------------------------------
(* C10 *)

Direct(name) == name \in DOMAIN dict \cup ClassAttrs

\* C10: every attribute read ends: a read in progress has been passed on at
\* most twice, is at the key '_' * hops + name, and has a step to take; a
\* name found directly is returned; a name not found directly that starts or
\* ends with two underscores fails with AttributeError without being passed
\* on; a name not found directly whose private counterpart is stored returns
\* that stored value; any other name fails with AttributeError at the end of
\* the chain name -> _name -> __name.
C10_ReadsEnd ==
  /\ read.hops <= 2
  /\ read.state = "lookup" =>
       /\ read.key = Underscores(read.hops) \o read.name
       /\ ENABLED (Found \/ GetattrPassOn \/ GetattrRaise)
  /\ read.state \in {"returned", "AttributeError"} =>
       CASE Direct(read.name) ->
              /\ read.state = "returned"
              /\ read.hops = 0
         [] ~Direct(read.name) /\ Reserved(read.name) ->
              /\ read.state = "AttributeError"
              /\ read.hops = 0
         [] ~Direct(read.name) /\ ~Reserved(read.name)
              /\ Private(read.name) \in DOMAIN dict ->
              /\ read.state = "returned"
              /\ read.value = dict[Private(read.name)]
              /\ read.hops = 1
         [] OTHER ->
              /\ read.state = "AttributeError"
              /\ read.key = (IF startswith(read.name, <<"_">>) THEN <<"_">>
                             ELSE <<"_", "_">>) \o read.name

C10_Witness ==
  /\ read.state = "AttributeError"
  /\ read.name = <<"x">>
  /\ read.hops = 2
  /\ read.key = <<"_", "_", "x">>

====
